---- MODULE Spec2Model ----
(***************************************************************************)
(* Room engine of the Dai Maou Liar Game server: the socket handlers of    *)
(* handlers/*.py, the game logic and phase timers of game/game_manager.py  *)
(* and the room store of database/db_manager.py, for one room id.          *)
(*                                                                         *)
(* Every handler runs its critical section under the single game lock, so  *)
(* a critical section is one action.  The parts of a handler that run      *)
(* after the lock is released and still touch the store are separate       *)
(* actions, kept in `pending` until they run.  A thread that takes the     *)
(* (non-reentrant) lock while it already holds it never returns: the lock  *)
(* is then "deadlocked" for good.                                          *)
(*                                                                         *)
(* Abstractions: answer texts and vote targets of the legacy vote map are  *)
(* dropped (only who answered / voted is kept); lobby_events keeps its     *)
(* most recent entry; a timestamp is either unset (FALSE) or set (TRUE);   *)
(* player ids are issued in increasing order, so the roster's join order   *)
(* is the order of the ids.                                                *)
(***************************************************************************)
EXTENDS Integers, Sequences, FiniteSets, TLC

VARIABLES db, lock, timers, pending, graceOver, nextId, last, resolutions, requests

vars == <<db, lock, timers, pending, graceOver, nextId, last, resolutions, requests>>

(* ---------------------------- bounds ---------------------------------- *)
MaxPlayers == 3
NumQuestions == 1
MaxRounds == 2
MaxTimers == 1
MaxPending == 2
MaxLiarVotes == 1
MaxCasts == 2
MaxRequests == 4
MaxCount == 7
SmallPlayerCount == 2
PoolSize == 3
MaxDraws == 6

(* ------------------------ program constants --------------------------- *)
DefaultTotalRounds == 5
DefaultPlayerCount == 6

Ids == 1..MaxPlayers
NoId == 0
QIds == 1..NumQuestions
NoQ == 0
Phases == {"waiting", "question", "voting", "vote_selection", "results"}
TimedPhases == {"question", "voting", "vote_selection"}
GameModes == {"normal", "mayhem"}

(* ----------------------------- dicts ---------------------------------- *)
EmptyDict == [k \in {} |-> 0]

Get(d, k, default) == IF k \in DOMAIN d THEN d[k] ELSE default

Put(d, k, v) == [j \in DOMAIN d \cup {k} |-> IF j = k THEN v ELSE d[j]]

Del(d, k) == [j \in DOMAIN d \ {k} |-> d[j]]

Range(s) == {s[i] : i \in DOMAIN s}

Min(S) == CHOOSE m \in S : \A n \in S : m <= n

RECURSIVE RemoveFirst(_, _)
RemoveFirst(s, x) ==
    IF s = <<>> THEN <<>>
    ELSE IF Head(s) = x THEN Tail(s)
    ELSE <<Head(s)>> \o RemoveFirst(Tail(s), x)

(* ------------------------- the room store ----------------------------- *)
Columns ==
    {"players", "host_id", "phase", "imposter_id", "roles", "questions",
     "answers", "votes", "results", "lobby_events", "main_question",
     "ready_to_vote", "settings", "questionPhaseStartTimestamp",
     "votingPhaseStartTimestamp", "voteSelectionStartTimestamp", "liarVotes",
     "used_question_indexes", "current_round", "total_rounds"}

NoRoom == [exists |-> FALSE]

room_exists == "phase" \in DOMAIN db

get_room == db

ColumnDefault(k) ==
    CASE k \in {"players", "roles", "questions", "results", "settings", "liarVotes"}
            -> EmptyDict
      [] k \in {"answers", "votes", "ready_to_vote", "used_question_indexes"} -> {}
      [] k = "host_id" -> NoId
      [] k = "phase" -> "waiting"
      [] k = "imposter_id" -> NoId
      [] k = "lobby_events" -> ""
      [] k = "main_question" -> NoQ
      [] k = "current_round" -> 1
      [] k = "total_rounds" -> DefaultTotalRounds
      [] OTHER -> FALSE

(* The row update_room writes: the table's columns only.  Keys of the      *)
(* handler's dictionary that are no column (impostor_ids, player_scores,   *)
(* the phase end timestamps) are not stored.                               *)
update_room(room_data) == [k \in Columns |-> Get(room_data, k, ColumnDefault(k))]

create_room(room_data) == update_room(room_data)

(* ----------------------------- helpers -------------------------------- *)
(* A lobby event: its text, without the name of the player. *)
Ev(text, player_id) == text

get_active_players(players_list) ==
    {p \in DOMAIN players_list : ~players_list[p].disconnected}

NewPlayer == [disconnected |-> FALSE, had_submitted |-> FALSE, was_ready |-> FALSE]

(* The names players choose; the player records carry them. *)
Names == Ids

Player(name) == [name |-> name] @@ NewPlayer

(* is_name_available *)
is_name_available(players_list, name) ==
    ~\E p \in DOMAIN players_list : players_list[p].name = name

(* get_question_pair: an index not yet used, any index once all are used. *)
available_indexes(all_indexes, used_indexes) ==
    IF all_indexes \ used_indexes = {} THEN all_indexes ELSE all_indexes \ used_indexes

get_question_pair(used_indexes) == available_indexes(QIds, used_indexes)

Prompt(q, is_imposter) ==
    [q |-> q, kind |-> IF is_imposter THEN "imposter" ELSE "normal"]

get_mayhem_impostor_count_over(player_count, rand) ==
    IF player_count = 4 THEN
        IF rand < 10 THEN 0
        ELSE IF rand < 30 THEN 3
        ELSE IF rand < 90 THEN 2
        ELSE 1
    ELSE IF player_count <= 6 THEN
        IF rand < 5 THEN 0
        ELSE IF rand < 10 THEN player_count - 1
        ELSE IF rand < 25 THEN player_count - 2
        ELSE IF rand < 70 THEN player_count \div 2
        ELSE IF 3 < player_count - 2 THEN 3 ELSE player_count - 2
    ELSE
        IF rand < 3 THEN 0
        ELSE IF rand < 8 THEN player_count + 1
        ELSE IF rand < 18 THEN player_count - 2
        ELSE IF rand < 40 THEN player_count \div 2
        ELSE IF rand < 70 THEN (player_count * 2) \div 3
        ELSE player_count \div 3

(* get_mayhem_impostor_count with rand = floor(random.random() * 100);     *)
(* the thresholds are integers, so the integer part decides every branch. *)
get_mayhem_impostor_count(player_count, rand) ==
    IF player_count = 4 THEN
        IF rand < 10 THEN 0
        ELSE IF rand < 30 THEN 3
        ELSE IF rand < 90 THEN 2
        ELSE 1
    ELSE IF player_count <= 6 THEN
        IF rand < 5 THEN 0
        ELSE IF rand < 10 THEN player_count - 1
        ELSE IF rand < 25 THEN player_count - 2
        ELSE IF rand < 70 THEN player_count \div 2
        ELSE IF 3 < player_count - 2 THEN 3 ELSE player_count - 2
    ELSE
        IF rand < 3 THEN 0
        ELSE IF rand < 8 THEN player_count - 1
        ELSE IF rand < 18 THEN player_count - 2
        ELSE IF rand < 40 THEN player_count \div 2
        ELSE IF rand < 70 THEN (player_count * 2) \div 3
        ELSE player_count \div 3

Rands == 0..99

(* impostor_count of handle_start_game and handle_round_transition. *)
impostor_count_of(game_mode, player_count, rand) ==
    IF game_mode = "mayhem" THEN get_mayhem_impostor_count(player_count, rand) ELSE 1

(* The impostor counts the game mode allows for this many active players. *)
ImpostorCounts(game_mode, n) == {impostor_count_of(game_mode, n, r) : r \in Rands}

(* random.sample(active_players, impostor_count) if impostor_count > 0     *)
(* else []: the possible samples; no sample when the population is too     *)
(* small (random.sample raises ValueError).                                *)
Samples(active, impostor_count) ==
    IF impostor_count > 0
    THEN {S \in SUBSET active : Cardinality(S) = impostor_count}
    ELSE {{}}

(* get_room_state: the state sent to the clients as update-game-state,    *)
(* without the room id, the event log, the language and the timestamps.    *)
(* The answers are given by the ids of their authors.                      *)
get_room_state(room) ==
    LET active_players == get_active_players(room.players)
        state == [phase |-> room.phase, players |-> active_players,
                  hostId |-> room.host_id, settings |-> room.settings,
                  currentRound |-> room.current_round,
                  totalRounds |-> room.total_rounds]
        answers_list == room.answers \cap DOMAIN room.players
        discussion == [answers |-> answers_list,
                       mainQuestion |-> room.main_question,
                       ready_to_vote |-> room.ready_to_vote]
    IN CASE room.phase = "question" ->
              [submittedCount |-> Cardinality(room.answers \cap active_players),
               answers |-> room.answers \cap active_players] @@ state
         [] room.phase = "voting" -> discussion @@ state
         [] room.phase = "vote_selection" ->
              [liarVotes |-> room.liarVotes,
               impostorIds |-> Get(room, "impostor_ids",
                                   IF room.imposter_id # NoId
                                   THEN {room.imposter_id} ELSE {}),
               imposterId |-> room.imposter_id] @@ discussion @@ state
         [] room.phase = "results" ->
              [results |-> room.results, questions |-> room.questions] @@ state
         [] OTHER -> state

(* --------------------- results of a handler run ----------------------- *)
(* What a handler or timer run did: its name, whether an error event went  *)
(* to the requester ("error"), the handler raised ("exception") or neither *)
(* ("none"), the impostor ids it selected, and whether its write replaced  *)
(* a row that another handler had changed since it read the row.  The      *)
(* variable `last` holds this for the last run that changed anything.      *)
L(op, player, err, impostors) ==
    [op |-> op, err |-> err, impostors |-> impostors, lost |-> FALSE]

(* A handler's outcome: the room row it leaves in the store, whether it    *)
(* wrote the store, the phase timers it armed, the work it still has to do *)
(* after releasing the lock, and whether it released the lock ("free") or  *)
(* blocked while holding it ("deadlocked").                                *)
Outcome(newdb, wrote, arm, spawn, lk, lastv) ==
    [db |-> newdb, wrote |-> wrote, arm |-> arm, spawn |-> spawn, lock |-> lk,
     last |-> lastv, resolved |-> FALSE, entry |-> FALSE]

Ignored(op, player, err) ==
    Outcome(db, FALSE, {}, {}, "free", L(op, player, err, {}))

Saved(room, arm, op, player) ==
    Outcome(update_room(room), TRUE, arm, {}, "free", L(op, player, "none", {}))

AssignRoles_active(roles, players, impostor_ids) ==
    [p \in DOMAIN roles \cup get_active_players(players) |->
        IF p \in get_active_players(players)
        THEN IF p \in impostor_ids THEN "imposter" ELSE "normal"
        ELSE roles[p]]

AssignRoles(roles, players, impostor_ids) ==
    [p \in DOMAIN roles \cup DOMAIN players |->
        IF p \in DOMAIN players
        THEN IF p \in impostor_ids THEN "imposter" ELSE "normal"
        ELSE roles[p]]

AssignQuestions(questions, players, impostor_ids, q) ==
    [p \in DOMAIN questions \cup DOMAIN players |->
        IF p \in DOMAIN players THEN Prompt(q, p \in impostor_ids) ELSE questions[p]]

(* ------------------------- GameHandler -------------------------------- *)
(* The settings dictionary as stored, cut down to the keys the server      *)
(* reads back from the room (totalRounds is read from the request only).   *)
StoredSettings(settings) ==
    [k \in DOMAIN settings \cap {"gameMode", "playerCount"} |-> settings[k]]

StartGameHostCheck(room, player_id) == room.host_id = player_id

(* handle_start_game up to the draws. *)
handle_start_game_checks(room, player_id) ==
    IF ~StartGameHostCheck(room, player_id) THEN "not_host"
    ELSE IF Cardinality(DOMAIN room.players) < 2 THEN "too_few"
    ELSE "ok"

(* handle_start_game after the checks, for the question q drawn, the       *)
(* impostors sampled and the first of them.                                *)
handle_start_game_room(room, settings, q, impostor_ids, first) ==
    LET r == [room EXCEPT
                !.settings = StoredSettings(settings),
                !.main_question = q,
                !.used_question_indexes = @ \cup {q},
                !.current_round = 1,
                !.total_rounds = Get(settings, "totalRounds", DefaultTotalRounds),
                !.imposter_id = first,
                !.roles = AssignRoles(@, room.players, impostor_ids),
                !.questions = AssignQuestions(@, room.players, impostor_ids, q),
                !.answers = {},
                !.votes = {},
                !.results = EmptyDict,
                !.phase = "question",
                !.questionPhaseStartTimestamp = TRUE,
                !.lobby_events = Ev("The game has started!", NoId)]
    IN Put(r, "impostor_ids", impostor_ids)

SubmitAllIn_roster(room, answers) == DOMAIN room.players \subseteq answers

(* handle_submit_answer: every active player is among the answers' keys. *)
SubmitAllIn(room, answers) ==
    LET active_player_ids == get_active_players(room.players)
        active_submitted == answers \cap active_player_ids
    IN Cardinality(active_submitted) = Cardinality(active_player_ids)

handle_submit_answer(player_id) ==
    LET room == get_room IN
    IF ~room_exists \/ room.phase # "question" THEN Ignored("submit_answer", player_id, "none")
    ELSE
      LET is_new_submission == player_id \notin room.answers
          answers == room.answers \cup {player_id}
          r1 == [room EXCEPT
                   !.answers = answers,
                   !.lobby_events = IF is_new_submission
                                    THEN Ev("submitted their answer.", player_id)
                                    ELSE Ev("updated their answer.", player_id)]
          r2 == IF SubmitAllIn(room, answers)
                THEN [r1 EXCEPT !.phase = "voting",
                                !.votingPhaseStartTimestamp = TRUE,
                                !.lobby_events = Ev("All answers are in! Time to vote.", NoId),
                                !.ready_to_vote = {}]
                ELSE r1
      IN Saved(r2, IF r2.phase = "voting" THEN {"voting"} ELSE {}, "submit_answer", player_id)

handle_remove_answer(player_id) ==
    LET room == get_room IN
    IF ~room_exists \/ room.phase # "question" THEN Ignored("remove_answer", player_id, "none")
    ELSE IF player_id \in room.answers
    THEN Saved([room EXCEPT !.answers = @ \ {player_id},
                            !.lobby_events = Ev("is editing their answer.", player_id)],
               {}, "remove_answer", player_id)
    ELSE Ignored("remove_answer", player_id, "none")

handle_submit_vote(voter_id) ==
    LET room == get_room IN
    IF ~room_exists \/ room.phase # "voting" THEN Ignored("submit_vote", voter_id, "none")
    ELSE IF voter_id \in room.votes THEN Ignored("submit_vote", voter_id, "none")
    ELSE Saved([room EXCEPT !.votes = @ \cup {voter_id},
                            !.lobby_events = Ev("has cast their vote.", voter_id)],
               {}, "submit_vote", voter_id)

(* handle_ready_to_vote, the part under the lock; the check that follows   *)
(* runs later, without the lock.                                           *)
handle_ready_to_vote(player_id) ==
    LET room == get_room
        cont == {[kind |-> "ready_check"]}
    IN
    IF ~room_exists THEN Ignored("ready_to_vote", player_id, "none")
    ELSE IF player_id \notin room.ready_to_vote
    THEN [Saved([room EXCEPT !.ready_to_vote = @ \cup {player_id},
                             !.lobby_events = Ev("is ready to vote.", player_id)],
                {}, "ready_to_vote", player_id) EXCEPT !.spawn = cont]
    ELSE [Ignored("ready_to_vote", player_id, "none") EXCEPT !.spawn = cont]

(* handle_ready_to_vote after emit_state_update: a read of the store       *)
(* without the lock, and the call of transition_to_vote_selection.         *)
ReadyCheckPasses(room) ==
    /\ room.phase = "voting"
    /\ Cardinality(room.ready_to_vote) = Cardinality(get_active_players(room.players))

ready_check ==
    LET room == get_room IN
    IF room_exists /\ ReadyCheckPasses(room)
    THEN [Ignored("ready_check", NoId, "none") EXCEPT !.spawn = {[kind |-> "to_vote_selection"]}]
    ELSE [Ignored("ready_check", NoId, "none") EXCEPT !.spawn = {[kind |-> "ready_check"]}]

(* ------------------------- GameManager -------------------------------- *)
VoteSelectionGuard(room) == room.phase = "voting"

transition_to_vote_selection ==
    LET room == get_room IN
    IF ~room_exists THEN Ignored("transition_to_vote_selection", NoId, "none")
    ELSE IF ~VoteSelectionGuard(room) THEN Ignored("transition_to_vote_selection", NoId, "none")
    ELSE Saved([room EXCEPT !.phase = "vote_selection",
                            !.voteSelectionStartTimestamp = TRUE,
                            !.lobby_events = Ev("Time to vote for the imposter!", NoId),
                            !.liarVotes = EmptyDict,
                            !.ready_to_vote = {}],
               {"vote_selection"}, "transition_to_vote_selection", NoId)

(* handle_liar_vote that keeps the voter's previous vote in both modes. *)
handle_liar_vote_keep(voter_id, target_id) ==
    LET room == get_room IN
    IF ~room_exists \/ room.phase # "vote_selection" THEN Ignored("liar_vote", voter_id, "none")
    ELSE
      LET v1 == room.liarVotes
          v2 == IF target_id \notin DOMAIN v1 THEN Put(v1, target_id, <<>>) ELSE v1
          v3 == [v2 EXCEPT ![target_id] = Append(@, voter_id)]
      IN Saved([room EXCEPT !.liarVotes = v3,
                            !.lobby_events = Ev("voted for", voter_id)],
               {}, "liar_vote", voter_id)

(* handle_liar_vote *)
handle_liar_vote(voter_id, target_id) ==
    LET room == get_room IN
    IF ~room_exists \/ room.phase # "vote_selection" THEN Ignored("liar_vote", voter_id, "none")
    ELSE
      LET game_mode == Get(room.settings, "gameMode", "normal")
          v1 == IF game_mode # "mayhem"
                THEN [t \in DOMAIN room.liarVotes |-> RemoveFirst(room.liarVotes[t], voter_id)]
                ELSE room.liarVotes
          v2 == IF target_id \notin DOMAIN v1 THEN Put(v1, target_id, <<>>) ELSE v1
          v3 == [v2 EXCEPT ![target_id] = Append(@, voter_id)]
      IN Saved([room EXCEPT !.liarVotes = v3,
                            !.lobby_events = Ev("voted for", voter_id)],
               {}, "liar_vote", voter_id)

(* handle_voting_timer_expired checks that the room exists, nothing else. *)
VotingTimerGuard(room) == TRUE

handle_voting_timer_expired ==
    LET room == get_room IN
    IF ~room_exists \/ ~VotingTimerGuard(room) THEN Ignored("voting_timer_expired", NoId, "none")
    ELSE Saved([room EXCEPT !.phase = "vote_selection",
                            !.voteSelectionStartTimestamp = TRUE],
               {}, "voting_timer_expired", NoId)

handle_update_settings(new_settings) ==
    LET room == get_room IN
    IF ~room_exists THEN Ignored("update_settings", NoId, "none")
    ELSE Saved([room EXCEPT !.settings = StoredSettings(new_settings),
                            !.lobby_events = Ev("Host updated the game settings.", NoId)],
               {}, "update_settings", NoId)

(* calculate_round_scores *)
Accused(liar_votes, player_id) ==
    {t \in DOMAIN liar_votes : player_id \in Range(liar_votes[t]) /\ t # player_id}

(* calculate_round_scores with the flat normal-mode voter rule in both modes. *)
calculate_round_scores_flat(room) ==
    LET impostor_ids == Get(room, "impostor_ids", {})
        liar_votes == room.liarVotes
        players == DOMAIN room.players
        active_player_ids == get_active_players(room.players)
        total_players == Cardinality(active_player_ids)
        voters == UNION {Range(liar_votes[t]) : t \in DOMAIN liar_votes}
        votes_received(i) ==
            Len(SelectSeq(Get(liar_votes, i, <<>>), LAMBDA v : v # i))
        impostor_score(i) ==
            IF votes_received(i) = 0 THEN 2
            ELSE IF total_players = 0 \/ votes_received(i) * 100 <= 50 * total_players THEN 1
            ELSE 0
        voter_score(p) ==
            IF \E i \in impostor_ids :
                    p \in Range(Get(liar_votes, i, <<>>)) /\ p # i
            THEN 1 ELSE 0
    IN
    IF players = {} THEN EmptyDict
    ELSE IF impostor_ids = {} THEN
        [p \in players |->
            IF p \notin active_player_ids THEN 0
            ELSE IF p \notin voters THEN 2
            ELSE 0 - Cardinality(Accused(liar_votes, p))]
    ELSE
        [p \in players |->
            IF p \in impostor_ids THEN impostor_score(p)
            ELSE IF p \in active_player_ids THEN voter_score(p)
            ELSE 0]

calculate_round_scores(room) ==
    LET game_mode == Get(room.settings, "gameMode", "normal")
        impostor_ids == Get(room, "impostor_ids", {})
        liar_votes == room.liarVotes
        players == DOMAIN room.players
        active_player_ids == get_active_players(room.players)
        total_players == Cardinality(active_player_ids)
        voters == UNION {Range(liar_votes[t]) : t \in DOMAIN liar_votes}
        votes_received(i) ==
            Len(SelectSeq(Get(liar_votes, i, <<>>), LAMBDA v : v # i))
        impostor_score(i) ==
            IF votes_received(i) = 0 THEN 2
            ELSE IF total_players = 0 \/ votes_received(i) * 100 <= 50 * total_players THEN 1
            ELSE 0
        voter_score(p) ==
            IF game_mode = "mayhem"
            THEN Cardinality(Accused(liar_votes, p) \cap impostor_ids)
                 - Cardinality(Accused(liar_votes, p) \ impostor_ids)
            ELSE IF \E i \in impostor_ids :
                        p \in Range(Get(liar_votes, i, <<>>)) /\ p # i
                 THEN 1 ELSE 0
    IN
    IF players = {} THEN EmptyDict
    ELSE IF impostor_ids = {} THEN
        [p \in players |->
            IF p \notin active_player_ids THEN 0
            ELSE IF p \notin voters THEN 2
            ELSE 0 - Cardinality(Accused(liar_votes, p))]
    ELSE
        [p \in players |->
            IF p \in impostor_ids THEN impostor_score(p)
            ELSE IF p \in active_player_ids THEN voter_score(p)
            ELSE 0]

(* player_scores after the round's scores are added. *)
AddScores(room, round_scores) ==
    LET base == IF "player_scores" \in DOMAIN room
                THEN room.player_scores
                ELSE [p \in DOMAIN room.players |-> 0]
    IN [p \in DOMAIN base \cup DOMAIN round_scores |->
            Get(base, p, 0) + Get(round_scores, p, 0)]

RoundTransitionGuard(room) == room.phase # "question" /\ room.phase = "vote_selection"

(* handle_round_transition, the branch that ends the game. *)
round_transition_results(room) ==
    LET scores == AddScores(room, calculate_round_scores(room))
        r == Put(room, "player_scores", scores)
    IN [r EXCEPT !.phase = "results",
                 !.results = [finalRound |-> room.current_round,
                              gameComplete |-> TRUE,
                              playerScores |-> scores]]

(* handle_round_transition, the branch that finds too few active players. *)
round_transition_too_few(room) ==
    LET scores == AddScores(room, calculate_round_scores(room))
        r == Put(room, "player_scores", scores)
    IN [r EXCEPT !.current_round = room.current_round + 1,
                 !.phase = "results",
                 !.results = [finalRound |-> room.current_round,
                              gameComplete |-> TRUE,
                              reason |-> "Not enough players"]]

round_transition_next_skip(room, q, impostor_ids, first) ==
    LET scores == AddScores(room, calculate_round_scores(room))
        r == Put(Put(room, "player_scores", scores), "impostor_ids", impostor_ids)
    IN [r EXCEPT !.current_round = room.current_round + 2,
                 !.main_question = q,
                 !.used_question_indexes = @ \cup {q},
                 !.imposter_id = first,
                 !.roles = AssignRoles(@, room.players, impostor_ids),
                 !.questions = AssignQuestions(@, room.players, impostor_ids, q),
                 !.answers = {},
                 !.votes = {},
                 !.liarVotes = EmptyDict,
                 !.ready_to_vote = {},
                 !.phase = "question",
                 !.questionPhaseStartTimestamp = TRUE,
                 !.lobby_events = Ev("Round has started!", NoId)]

(* handle_round_transition, the branch that starts the next round. *)
round_transition_next(room, q, impostor_ids, first) ==
    LET scores == AddScores(room, calculate_round_scores(room))
        r == Put(Put(room, "player_scores", scores), "impostor_ids", impostor_ids)
    IN [r EXCEPT !.current_round = room.current_round + 1,
                 !.main_question = q,
                 !.used_question_indexes = @ \cup {q},
                 !.imposter_id = first,
                 !.roles = AssignRoles(@, room.players, impostor_ids),
                 !.questions = AssignQuestions(@, room.players, impostor_ids, q),
                 !.answers = {},
                 !.votes = {},
                 !.liarVotes = EmptyDict,
                 !.ready_to_vote = {},
                 !.phase = "question",
                 !.questionPhaseStartTimestamp = TRUE,
                 !.lobby_events = Ev("Round has started!", NoId)]

(* handle_new_game *)
(* handle_new_game does not look at the phase. *)
NewGameGuard(room) == TRUE

DefaultSettings ==
    StoredSettings([gameMode |-> "normal", totalRounds |-> DefaultTotalRounds,
                    playerCount |-> DefaultPlayerCount])

handle_new_game_any(player_id) ==
    LET room == get_room IN
    IF ~room_exists THEN Ignored("new_game", player_id, "error")
    ELSE IF Cardinality(get_active_players(room.players)) < 2
    THEN Ignored("new_game", player_id, "error")
    ELSE IF ~NewGameGuard(room) THEN Ignored("new_game", player_id, "none")
    ELSE Saved([room EXCEPT !.phase = "waiting",
                            !.imposter_id = NoId,
                            !.roles = EmptyDict,
                            !.questions = EmptyDict,
                            !.answers = {},
                            !.votes = {},
                            !.results = EmptyDict,
                            !.liarVotes = EmptyDict,
                            !.ready_to_vote = {},
                            !.main_question = NoQ,
                            !.current_round = 1,
                            !.total_rounds = DefaultTotalRounds,
                            !.used_question_indexes = {},
                            !.settings = DefaultSettings,
                            !.questionPhaseStartTimestamp = FALSE,
                            !.votingPhaseStartTimestamp = FALSE,
                            !.voteSelectionStartTimestamp = FALSE,
                            !.lobby_events = Ev("Host started a new game.", NoId)],
               {}, "new_game", player_id)

handle_new_game(player_id) ==
    LET room == get_room IN
    IF ~room_exists THEN Ignored("new_game", player_id, "error")
    ELSE IF room.host_id # player_id THEN Ignored("new_game", player_id, "error")
    ELSE IF Cardinality(get_active_players(room.players)) < 2
    THEN Ignored("new_game", player_id, "error")
    ELSE IF ~NewGameGuard(room) THEN Ignored("new_game", player_id, "none")
    ELSE Saved([room EXCEPT !.phase = "waiting",
                            !.imposter_id = NoId,
                            !.roles = EmptyDict,
                            !.questions = EmptyDict,
                            !.answers = {},
                            !.votes = {},
                            !.results = EmptyDict,
                            !.liarVotes = EmptyDict,
                            !.ready_to_vote = {},
                            !.main_question = NoQ,
                            !.current_round = 1,
                            !.total_rounds = DefaultTotalRounds,
                            !.used_question_indexes = {},
                            !.settings = DefaultSettings,
                            !.questionPhaseStartTimestamp = FALSE,
                            !.votingPhaseStartTimestamp = FALSE,
                            !.voteSelectionStartTimestamp = FALSE,
                            !.lobby_events = Ev("Host started a new game.", NoId)],
               {}, "new_game", player_id)

(* ------------------------- RoomHandler -------------------------------- *)
(* The room_data of handle_create_room. *)
room_data(player_id, name) ==
    [players |-> [p \in {player_id} |-> Player(name)],
     host_id |-> player_id,
     phase |-> "waiting",
     imposter_id |-> NoId,
     roles |-> EmptyDict,
     questions |-> EmptyDict,
     answers |-> {},
     votes |-> {},
     results |-> EmptyDict,
     lobby_events |-> Ev("created the room and is the host.", player_id),
     main_question |-> NoQ,
     ready_to_vote |-> {},
     current_round |-> 1,
     total_rounds |-> DefaultTotalRounds,
     used_question_indexes |-> {}]

handle_create_room(player_id, name) ==
    IF room_exists THEN Ignored("create_room", player_id, "error")
    ELSE Outcome(create_room(room_data(player_id, name)),
                 TRUE, {}, {}, "free", L("create_room", player_id, "none", {}))

handle_join_room_active(player_id, name) ==
    LET room == get_room IN
    IF ~room_exists THEN Ignored("join_room", player_id, "error")
    ELSE IF room.phase # "waiting" THEN Ignored("join_room", player_id, "error")
    ELSE IF Cardinality(get_active_players(room.players))
              >= Get(room.settings, "playerCount", DefaultPlayerCount)
    THEN Ignored("join_room", player_id, "error")
    ELSE IF ~is_name_available([p \in get_active_players(room.players) |-> room.players[p]], name)
    THEN Ignored("join_room", player_id, "error")
    ELSE Saved([room EXCEPT !.players = Put(@, player_id, Player(name)),
                            !.lobby_events = Ev("has joined the game.", player_id)],
               {}, "join_room", player_id)

handle_join_room(player_id, name) ==
    LET room == get_room IN
    IF ~room_exists THEN Ignored("join_room", player_id, "error")
    ELSE IF room.phase # "waiting" THEN Ignored("join_room", player_id, "error")
    ELSE IF Cardinality(get_active_players(room.players))
              >= Get(room.settings, "playerCount", DefaultPlayerCount)
    THEN Ignored("join_room", player_id, "error")
    ELSE IF ~is_name_available(room.players, name)
    THEN Ignored("join_room", player_id, "error")
    ELSE Saved([room EXCEPT !.players = Put(@, player_id, Player(name)),
                            !.lobby_events = Ev("has joined the game.", player_id)],
               {}, "join_room", player_id)

(* The first player of the roster, in join order. *)
First(ids) == Min(ids)

Without(players, player_id) == [p \in DOMAIN players \ {player_id} |-> players[p]]

(* handle_leave_room; own_socket: the request comes from the connection    *)
(* the player's record names.                                              *)
handle_leave_room(player_id, own_socket) ==
    LET room == get_room IN
    IF ~room_exists THEN Ignored("leave_room", player_id, "error")
    ELSE IF player_id \notin DOMAIN room.players THEN Ignored("leave_room", player_id, "error")
    ELSE IF room.players[player_id].disconnected \/ ~own_socket
    THEN Ignored("leave_room", player_id, "error")
    ELSE
      LET players == Without(room.players, player_id)
          r1 == [room EXCEPT !.players = players,
                             !.lobby_events = Ev("has left the game.", player_id)]
      IN IF DOMAIN players = {}
         THEN Outcome(NoRoom, TRUE, {}, {}, "free", L("leave_room", player_id, "none", {}))
         ELSE IF player_id = room.host_id
         THEN Saved([r1 EXCEPT !.host_id = First(DOMAIN players),
                               !.lobby_events = Ev("is the new host.", First(DOMAIN players))],
                    {}, "leave_room", player_id)
         ELSE Saved(r1, {}, "leave_room", player_id)

handle_kick_player(by_player_id, target_player_id) ==
    LET room == get_room IN
    IF ~room_exists THEN Ignored("kick_player", by_player_id, "error")
    ELSE IF by_player_id # room.host_id THEN Ignored("kick_player", by_player_id, "error")
    ELSE IF target_player_id \notin DOMAIN room.players
    THEN Ignored("kick_player", by_player_id, "error")
    ELSE IF room.players[target_player_id].disconnected
    THEN Ignored("kick_player", by_player_id, "exception")
    ELSE Saved([room EXCEPT !.players = Without(@, target_player_id),
                            !.lobby_events = Ev("was kicked from the game.", target_player_id)],
               {}, "kick_player", by_player_id)

(* ----------------------- ConnectionHandler ---------------------------- *)
(* check_phase_transition_after_disconnect *)
check_phase_transition_after_disconnect(room, active_players) ==
    IF room.phase = "question" THEN
        IF Cardinality(room.answers) = Cardinality(active_players)
           /\ Cardinality(active_players) > 0
        THEN [room EXCEPT !.phase = "voting",
                          !.votingPhaseStartTimestamp = TRUE,
                          !.lobby_events = Ev("All answers are in! Time to vote.", NoId),
                          !.ready_to_vote = {}]
        ELSE room
    ELSE IF room.phase = "voting" THEN
        IF Cardinality(room.ready_to_vote) = Cardinality(active_players)
           /\ Cardinality(active_players) > 0
        THEN [room EXCEPT !.phase = "vote_selection",
                          !.voteSelectionStartTimestamp = TRUE,
                          !.lobby_events = Ev("Time to vote for the imposter!", NoId),
                          !.liarVotes = EmptyDict]
        ELSE room
    ELSE room

handle_disconnect_solo(player_id, expired) ==
    LET room == get_room IN
    IF ~room_exists \/ player_id \notin DOMAIN room.players
    THEN Ignored("disconnect", player_id, "none")
    ELSE IF room.players[player_id].disconnected THEN Ignored("disconnect", player_id, "none")
    ELSE IF room.phase = "waiting" THEN
      LET players == Without(room.players, player_id)
          r1 == [room EXCEPT !.players = players,
                             !.lobby_events = Ev("has left the game.", player_id)]
      IN IF DOMAIN players = {}
         THEN Outcome(NoRoom, TRUE, {}, {}, "free", L("disconnect", player_id, "none", {}))
         ELSE IF player_id = room.host_id
         THEN Saved([r1 EXCEPT !.host_id = First(DOMAIN players),
                               !.lobby_events = Ev("is the new host.", First(DOMAIN players))],
                    {}, "disconnect", player_id)
         ELSE Saved(r1, {}, "disconnect", player_id)
    ELSE
      LET marked == [room.players EXCEPT ![player_id] =
                        [@ EXCEPT
                           !.disconnected = TRUE,
                           !.had_submitted = player_id \in room.answers,
                           !.was_ready = player_id \in room.ready_to_vote]]
          votes1 == [t \in DOMAIN room.liarVotes |-> RemoveFirst(room.liarVotes[t], player_id)]
          gone == {p \in DOMAIN marked : marked[p].disconnected /\ p \in expired /\ p # player_id}
          players == [p \in DOMAIN marked \ gone |-> marked[p]]
          r1 == [room EXCEPT
                   !.players = players,
                   !.answers = IF room.phase = "question" THEN @ \ {player_id} ELSE @,
                   !.votes = @ \ {player_id},
                   !.ready_to_vote = @ \ {player_id},
                   !.liarVotes = Del(votes1, player_id),
                   !.lobby_events = Ev("has disconnected.", player_id)]
          active_players == get_active_players(players)
          r2 == IF player_id = room.host_id /\ active_players # {}
                THEN [r1 EXCEPT !.host_id = First(active_players),
                                !.lobby_events = Ev("is the new host.", First(active_players))]
                ELSE r1
      IN IF Cardinality(active_players) < 1
         THEN Outcome(NoRoom, TRUE, {}, {}, "free",
                      [solo_player_kick |-> active_players]
                          @@ L("disconnect", player_id, "none", {}))
         ELSE Saved(check_phase_transition_after_disconnect(r2, active_players),
                    {}, "disconnect", player_id)

handle_disconnect_keephost(player_id, expired) ==
    LET room == get_room IN
    IF ~room_exists \/ player_id \notin DOMAIN room.players
    THEN Ignored("disconnect", player_id, "none")
    ELSE IF room.players[player_id].disconnected THEN Ignored("disconnect", player_id, "none")
    ELSE IF room.phase = "waiting" THEN
      LET players == Without(room.players, player_id)
          r1 == [room EXCEPT !.players = players,
                             !.lobby_events = Ev("has left the game.", player_id)]
      IN IF DOMAIN players = {}
         THEN Outcome(NoRoom, TRUE, {}, {}, "free", L("disconnect", player_id, "none", {}))
         ELSE IF player_id = room.host_id
         THEN Saved([r1 EXCEPT !.host_id = room.host_id,
                               !.lobby_events = Ev("is the new host.", First(DOMAIN players))],
                    {}, "disconnect", player_id)
         ELSE Saved(r1, {}, "disconnect", player_id)
    ELSE
      LET marked == [room.players EXCEPT ![player_id] =
                        [@ EXCEPT
                           !.disconnected = TRUE,
                           !.had_submitted = player_id \in room.answers,
                           !.was_ready = player_id \in room.ready_to_vote]]
          votes1 == [t \in DOMAIN room.liarVotes |-> RemoveFirst(room.liarVotes[t], player_id)]
          gone == {p \in DOMAIN marked : marked[p].disconnected /\ p \in expired /\ p # player_id}
          players == [p \in DOMAIN marked \ gone |-> marked[p]]
          r1 == [room EXCEPT
                   !.players = players,
                   !.answers = IF room.phase = "question" THEN @ \ {player_id} ELSE @,
                   !.votes = @ \ {player_id},
                   !.ready_to_vote = @ \ {player_id},
                   !.liarVotes = Del(votes1, player_id),
                   !.lobby_events = Ev("has disconnected.", player_id)]
          active_players == get_active_players(players)
          r2 == IF player_id = room.host_id /\ active_players # {}
                THEN [r1 EXCEPT !.host_id = First(active_players),
                                !.lobby_events = Ev("is the new host.", First(active_players))]
                ELSE r1
      IN IF Cardinality(active_players) <= 1
         THEN Outcome(NoRoom, TRUE, {}, {}, "free",
                      [solo_player_kick |-> active_players]
                          @@ L("disconnect", player_id, "none", {}))
         ELSE Saved(check_phase_transition_after_disconnect(r2, active_players),
                    {}, "disconnect", player_id)

(* handle_disconnect that drops the player's answer in every phase. *)
handle_disconnect_answers(player_id, expired) ==
    LET room == get_room IN
    IF ~room_exists \/ player_id \notin DOMAIN room.players
    THEN Ignored("disconnect", player_id, "none")
    ELSE IF room.players[player_id].disconnected THEN Ignored("disconnect", player_id, "none")
    ELSE IF room.phase = "waiting" THEN
      LET players == Without(room.players, player_id)
          r1 == [room EXCEPT !.players = players,
                             !.lobby_events = Ev("has left the game.", player_id)]
      IN IF DOMAIN players = {}
         THEN Outcome(NoRoom, TRUE, {}, {}, "free", L("disconnect", player_id, "none", {}))
         ELSE IF player_id = room.host_id
         THEN Saved([r1 EXCEPT !.host_id = First(DOMAIN players),
                               !.lobby_events = Ev("is the new host.", First(DOMAIN players))],
                    {}, "disconnect", player_id)
         ELSE Saved(r1, {}, "disconnect", player_id)
    ELSE
      LET marked == [room.players EXCEPT ![player_id] =
                        [@ EXCEPT
                           !.disconnected = TRUE,
                           !.had_submitted = player_id \in room.answers,
                           !.was_ready = player_id \in room.ready_to_vote]]
          votes1 == [t \in DOMAIN room.liarVotes |-> RemoveFirst(room.liarVotes[t], player_id)]
          gone == {p \in DOMAIN marked : marked[p].disconnected /\ p \in expired /\ p # player_id}
          players == [p \in DOMAIN marked \ gone |-> marked[p]]
          r1 == [room EXCEPT
                   !.players = players,
                   !.answers = @ \ {player_id},
                   !.votes = @ \ {player_id},
                   !.ready_to_vote = @ \ {player_id},
                   !.liarVotes = Del(votes1, player_id),
                   !.lobby_events = Ev("has disconnected.", player_id)]
          active_players == get_active_players(players)
          r2 == IF player_id = room.host_id /\ active_players # {}
                THEN [r1 EXCEPT !.host_id = First(active_players),
                                !.lobby_events = Ev("is the new host.", First(active_players))]
                ELSE r1
      IN IF Cardinality(active_players) <= 1
         THEN Outcome(NoRoom, TRUE, {}, {}, "free",
                      [solo_player_kick |-> active_players]
                          @@ L("disconnect", player_id, "none", {}))
         ELSE Saved(check_phase_transition_after_disconnect(r2, active_players),
                    {}, "disconnect", player_id)

(* handle_disconnect for the connection of player_id; expired: the         *)
(* disconnected players whose 30 s have passed.                            *)
handle_disconnect(player_id, expired) ==
    LET room == get_room IN
    IF ~room_exists \/ player_id \notin DOMAIN room.players
    THEN Ignored("disconnect", player_id, "none")
    ELSE IF room.players[player_id].disconnected THEN Ignored("disconnect", player_id, "none")
    ELSE IF room.phase = "waiting" THEN
      LET players == Without(room.players, player_id)
          r1 == [room EXCEPT !.players = players,
                             !.lobby_events = Ev("has left the game.", player_id)]
      IN IF DOMAIN players = {}
         THEN Outcome(NoRoom, TRUE, {}, {}, "free", L("disconnect", player_id, "none", {}))
         ELSE IF player_id = room.host_id
         THEN Saved([r1 EXCEPT !.host_id = First(DOMAIN players),
                               !.lobby_events = Ev("is the new host.", First(DOMAIN players))],
                    {}, "disconnect", player_id)
         ELSE Saved(r1, {}, "disconnect", player_id)
    ELSE
      LET marked == [room.players EXCEPT ![player_id] =
                        [@ EXCEPT
                           !.disconnected = TRUE,
                           !.had_submitted = player_id \in room.answers,
                           !.was_ready = player_id \in room.ready_to_vote]]
          votes1 == [t \in DOMAIN room.liarVotes |-> RemoveFirst(room.liarVotes[t], player_id)]
          gone == {p \in DOMAIN marked : marked[p].disconnected /\ p \in expired /\ p # player_id}
          players == [p \in DOMAIN marked \ gone |-> marked[p]]
          r1 == [room EXCEPT
                   !.players = players,
                   !.answers = IF room.phase = "question" THEN @ \ {player_id} ELSE @,
                   !.votes = @ \ {player_id},
                   !.ready_to_vote = @ \ {player_id},
                   !.liarVotes = Del(votes1, player_id),
                   !.lobby_events = Ev("has disconnected.", player_id)]
          active_players == get_active_players(players)
          r2 == IF player_id = room.host_id /\ active_players # {}
                THEN [r1 EXCEPT !.host_id = First(active_players),
                                !.lobby_events = Ev("is the new host.", First(active_players))]
                ELSE r1
      IN IF Cardinality(active_players) <= 1
         THEN Outcome(NoRoom, TRUE, {}, {}, "free",
                      [solo_player_kick |-> active_players]
                          @@ L("disconnect", player_id, "none", {}))
         ELSE Saved(check_phase_transition_after_disconnect(r2, active_players),
                    {}, "disconnect", player_id)

handle_rejoin_game_late(player_id, expired) ==
    LET room == get_room IN
    IF ~room_exists THEN Ignored("rejoin_game", player_id, "error")
    ELSE IF player_id \notin DOMAIN room.players THEN Ignored("rejoin_game", player_id, "error")
    ELSE IF ~room.players[player_id].disconnected THEN Ignored("rejoin_game", player_id, "error")
    ELSE Saved([room EXCEPT !.players[player_id] = Player(@.name),
                            !.lobby_events = Ev("has reconnected.", player_id)],
               {}, "rejoin_game", player_id)

rejoin_reply_current(room, player_id, room_state) ==
    [success |-> TRUE,
     playerId |-> player_id,
     hadSubmitted |-> player_id \in room.answers,
     wasReady |-> player_id \in room.ready_to_vote,
     gameState |-> room_state,
     personal_game_info |->
        IF room_state.phase = "question"
        THEN {[role |-> Get(room.roles, player_id, "none"),
               question |-> Get(room.questions, player_id, Prompt(NoQ, FALSE))]}
        ELSE {}]

(* What handle_rejoin_game sends to the player it accepted, from the room  *)
(* it read under the lock and the state it read after releasing it: the    *)
(* reconnect_player event and, in phase question, personal_game_info.      *)
rejoin_reply(room, player_id, room_state) ==
    [success |-> TRUE,
     playerId |-> player_id,
     hadSubmitted |-> Get(room.players[player_id], "had_submitted", FALSE),
     wasReady |-> Get(room.players[player_id], "was_ready", FALSE),
     gameState |-> room_state,
     personal_game_info |->
        IF room_state.phase = "question"
        THEN {[role |-> Get(room.roles, player_id, "none"),
               question |-> Get(room.questions, player_id, Prompt(NoQ, FALSE))]}
        ELSE {}]

(* handle_rejoin_game; expired: more than 30 s since the disconnect. *)
handle_rejoin_game(player_id, expired) ==
    LET room == get_room IN
    IF ~room_exists THEN Ignored("rejoin_game", player_id, "error")
    ELSE IF player_id \notin DOMAIN room.players THEN Ignored("rejoin_game", player_id, "error")
    ELSE IF ~room.players[player_id].disconnected THEN Ignored("rejoin_game", player_id, "error")
    ELSE IF player_id \in expired THEN Ignored("rejoin_game", player_id, "error")
    ELSE
      LET r == [room EXCEPT !.players[player_id] = Player(@.name),
                            !.lobby_events = Ev("has reconnected.", player_id)]
          saved == Saved(r, {}, "rejoin_game", player_id)
      IN [saved EXCEPT !.last = [reply |-> rejoin_reply(room, player_id,
                                                         get_room_state(saved.db))] @@ @]

(* --------------------------- phase timers ----------------------------- *)
(* timers[<<phase_name, current>>]: the threads of schedule_phase_transition *)
(* still asleep, by the phase they were armed for and by whether the room  *)
(* is still in the occurrence of the phase (same game, round and phase)    *)
(* that armed them.                                                        *)
Sat(n) == IF n > MaxTimers THEN MaxTimers ELSE n

NoTimers == [k \in TimedPhases \X BOOLEAN |-> 0]

Age(t) ==
    [k \in TimedPhases \X BOOLEAN |->
        IF k[2] THEN 0 ELSE Sat(t[<<k[1], TRUE>>] + t[<<k[1], FALSE>>])]

schedule_phase_transition(t, arm) ==
    [k \in TimedPhases \X BOOLEAN |->
        IF k[2] /\ k[1] \in arm THEN Sat(t[k] + 1) ELSE t[k]]

(* The room's occurrence of a phase: it changes with the room, the phase   *)
(* and the round, and when a game is started.                              *)
Occurrence(room) ==
    IF "phase" \in DOMAIN room THEN <<room.phase, room.current_round>> ELSE <<"none", 0>>

(* transition_callback for a timer armed for phase_name. *)
TimerGuard(room, phase_name) == room.phase = phase_name

transition_callback(phase_name, current) ==
    LET room == get_room
        op == IF current THEN "timer" ELSE "stale_timer"
    IN
    IF ~room_exists THEN Ignored(op, NoId, "none")
    ELSE IF ~TimerGuard(room, phase_name) THEN Ignored(op, NoId, "none")
    ELSE IF phase_name = "question"
    THEN Outcome(update_room([room EXCEPT
                                !.phase = "voting",
                                !.votingPhaseStartTimestamp = TRUE,
                                !.lobby_events = Ev("Time's up! Moving to voting.", NoId),
                                !.ready_to_vote = {}]),
                 TRUE, {}, {}, "deadlocked", L(op, NoId, "none", {}))
    ELSE Outcome(db, FALSE, {}, {}, "deadlocked", L(op, NoId, "none", {}))

(* ------------------------------ steps --------------------------------- *)
(* A handler thread between two of its sections: the unlocked check of     *)
(* handle_ready_to_vote ("ready_check"), its call of                       *)
(* transition_to_vote_selection ("to_vote_selection"), or the update_room  *)
(* of handle_round_transition with the room it is about to write           *)
(* ("round_write").  Threads at a round_write are told apart by tid; the   *)
(* others carry no data, so that one stands for any number of them.        *)
Writes(conts) == {c \in conts : c.kind = "round_write"}

FreeTid(rest) == Min({i \in 1..(MaxPending + 1) : \A c \in Writes(rest) : c.tid # i})

Cont(kind, tid, room, arm, impostors) ==
    [kind |-> kind, tid |-> tid, room |-> room, arm |-> arm,
     impostors |-> impostors, stale |-> FALSE]

Spawned(spawn, rest) ==
    {Cont(s.kind, IF s.kind = "round_write" THEN FreeTid(rest) ELSE 0,
          Get(s, "room", NoRoom), Get(s, "arm", {}), Get(s, "impostors", {})) : s \in spawn}

(* The step of the system for a handler outcome o that finished the        *)
(* pending work `consumed`, leaves the grace periods g and found the       *)
(* sleeping timers t.  cost: 1 for a client request or the end of a grace  *)
(* period, 0 for a timer or the rest of a handler.  A run that changes     *)
(* nothing (an error reply, a request ignored) is a stuttering step and is *)
(* left out.                                                               *)
Apply(o, consumed, g, t, cost) ==
    LET rest == pending \ consumed
        changed == o.wrote /\ o.db # db
        marked == IF changed
                  THEN {[c EXCEPT !.stale = @ \/ c.kind = "round_write"] : c \in rest}
                  ELSE rest
        newOcc == Occurrence(o.db) # Occurrence(db) \/ o.entry
        aged == IF newOcc THEN Age(t) ELSE t
        newPending == marked \cup Spawned(o.spawn, rest)
        newTimers == schedule_phase_transition(aged, o.arm)
        quiet == /\ ~changed
                 /\ newPending = pending
                 /\ newTimers = timers
                 /\ o.lock # "deadlocked"
                 /\ ~o.resolved
                 /\ g = graceOver
    IN
    /\ requests + cost <= MaxRequests
    /\ ~quiet
    /\ Cardinality(Writes(newPending)) <= MaxPending
    /\ requests' = requests + cost
    /\ db' = o.db
    /\ lock' = IF o.lock = "deadlocked" THEN "deadlocked" ELSE lock
    /\ timers' = newTimers
    /\ pending' = newPending
    /\ graceOver' = g
    /\ last' = o.last
    /\ resolutions' = IF o.resolved THEN resolutions + 1
                      ELSE IF newOcc THEN 0 ELSE resolutions

Locked(o) == lock = "free" /\ Apply(o, {}, graceOver, timers, 1)

SettingsInputs == [gameMode : GameModes, totalRounds : 1..MaxRounds]

CreateRoom ==
    /\ nextId <= MaxPlayers
    /\ ~room_exists
    /\ \E name \in Names : Locked(handle_create_room(nextId, name))
    /\ nextId' = nextId + 1

JoinRoom ==
    /\ nextId <= MaxPlayers
    /\ room_exists
    /\ \E name \in Names : Locked(handle_join_room(nextId, name))
    /\ nextId' = IF db' # db THEN nextId + 1 ELSE nextId

LeaveRoom ==
    /\ \E p \in Ids, own \in BOOLEAN : Locked(handle_leave_room(p, own))
    /\ UNCHANGED nextId

KickPlayer ==
    /\ \E by \in Ids, target \in Ids : Locked(handle_kick_player(by, target))
    /\ UNCHANGED nextId

StartGame ==
    /\ UNCHANGED nextId
    /\ \E player_id \in Ids, settings \in SettingsInputs :
         LET room == get_room IN
         IF ~room_exists THEN Locked(Ignored("start_game", player_id, "none"))
         ELSE IF handle_start_game_checks(room, player_id) # "ok"
         THEN Locked(Ignored("start_game", player_id, "error"))
         ELSE
           LET active_players == get_active_players(room.players) IN
           \E q \in get_question_pair(room.used_question_indexes),
              n \in ImpostorCounts(settings.gameMode, Cardinality(active_players)) :
              IF Samples(active_players, n) = {}
              THEN Locked(Ignored("start_game", player_id, "exception"))
              ELSE \E impostor_ids \in Samples(active_players, n) :
                   \E first \in IF impostor_ids = {} THEN {NoId} ELSE impostor_ids :
                     Locked([Saved(handle_start_game_room(room, settings, q, impostor_ids, first),
                                   {"question"}, "start_game", player_id)
                             EXCEPT !.entry = TRUE, !.last.impostors = impostor_ids])

SubmitAnswer ==
    /\ \E p \in Ids : Locked(handle_submit_answer(p))
    /\ UNCHANGED nextId

RemoveAnswer ==
    /\ \E p \in Ids : Locked(handle_remove_answer(p))
    /\ UNCHANGED nextId

SubmitVote ==
    /\ \E p \in Ids : Locked(handle_submit_vote(p))
    /\ UNCHANGED nextId

ReadyToVote ==
    /\ \E p \in Ids : Locked(handle_ready_to_vote(p))
    /\ UNCHANGED nextId

(* The unlocked check of a handle_ready_to_vote thread.  A check that       *)
(* fails ends the thread without effect; the thread is kept instead, as a  *)
(* thread that has not run its check yet behaves the same.                 *)
ReadyCheck ==
    /\ lock = "free"
    /\ \E c \in pending : c.kind = "ready_check" /\ Apply(ready_check, {c}, graceOver, timers, 0)
    /\ UNCHANGED nextId

TransitionToVoteSelection ==
    /\ lock = "free"
    /\ \E c \in pending :
         c.kind = "to_vote_selection" /\ Apply(transition_to_vote_selection, {c}, graceOver, timers, 0)
    /\ UNCHANGED nextId

LiarVoteCount(room) ==
    LET v == room.liarVotes
        n[S \in SUBSET DOMAIN v] ==
            IF S = {} THEN 0 ELSE LET t == CHOOSE x \in S : TRUE IN Len(v[t]) + n[S \ {t}]
    IN n[DOMAIN v]

LiarVote ==
    /\ room_exists => LiarVoteCount(get_room) < MaxLiarVotes
    /\ \E voter \in Ids, target \in Ids : Locked(handle_liar_vote(voter, target))
    /\ UNCHANGED nextId

VotingTimerExpired ==
    /\ Locked(handle_voting_timer_expired)
    /\ UNCHANGED nextId

UpdateSettings ==
    /\ \E s \in [gameMode : GameModes]
                  \cup [gameMode : GameModes, playerCount : {SmallPlayerCount}] :
         Locked(handle_update_settings(s))
    /\ UNCHANGED nextId

(* handle_round_transition, the part under the lock. *)
RoundTransition ==
    /\ UNCHANGED nextId
    /\ LET room == get_room
           none == Ignored("round_transition", NoId, "none")
       IN
       IF ~room_exists THEN Locked(none)
       ELSE IF ~RoundTransitionGuard(room) THEN Locked(none)
       ELSE IF room.current_round >= room.total_rounds
       THEN Locked([none EXCEPT
                      !.resolved = TRUE,
                      !.spawn = {[kind |-> "round_write",
                                  room |-> update_room(round_transition_results(room))]}])
       ELSE
         LET active_players == get_active_players(room.players) IN
         IF Cardinality(active_players) < 2
         THEN Locked([Outcome(update_room(round_transition_too_few(room)), TRUE, {}, {},
                              "deadlocked", L("round_transition", NoId, "none", {}))
                      EXCEPT !.resolved = TRUE])
         ELSE \E q \in get_question_pair(room.used_question_indexes),
                 n \in ImpostorCounts(Get(room.settings, "gameMode", "normal"),
                                      Cardinality(active_players)) :
              \E impostor_ids \in Samples(active_players, n) :
              \E first \in IF impostor_ids = {} THEN {NoId} ELSE impostor_ids :
                Locked([none EXCEPT
                          !.resolved = TRUE,
                          !.last.impostors = impostor_ids,
                          !.spawn = {[kind |-> "round_write",
                                      room |-> update_room(
                                          round_transition_next(room, q, impostor_ids, first)),
                                      arm |-> {"question"},
                                      impostors |-> impostor_ids]}])

(* handle_round_transition after the lock is released: update_room, then   *)
(* the timer of the question phase.                                        *)
RoundWrite ==
    /\ UNCHANGED nextId
    /\ \E c \in pending :
         /\ c.kind = "round_write"
         /\ Apply(Outcome(IF room_exists THEN c.room ELSE db, room_exists, c.arm, {}, "free",
                          [L("round_write", NoId, "none", c.impostors)
                           EXCEPT !.lost = c.stale /\ room_exists]),
                  {c}, graceOver, timers, 0)

NewGame ==
    /\ \E p \in Ids : Locked(handle_new_game(p))
    /\ UNCHANGED nextId

Disconnect ==
    /\ \E p \in Ids :
         LET o == handle_disconnect(p, graceOver)
         IN /\ lock = "free"
            /\ Apply(o, {}, IF o.wrote THEN graceOver \ {p} ELSE graceOver, timers, 1)
    /\ UNCHANGED nextId

RejoinGame ==
    /\ \E p \in Ids : Locked(handle_rejoin_game(p, graceOver))
    /\ UNCHANGED nextId

(* More than 30 s pass since the disconnect of a player. *)
GraceElapse ==
    /\ UNCHANGED nextId
    /\ room_exists
    /\ \E p \in DOMAIN db.players :
         /\ db.players[p].disconnected
         /\ p \notin graceOver
         /\ Apply(Ignored("grace_elapse", p, "none"), {}, graceOver \cup {p}, timers, 1)

(* A timer thread wakes up and takes the lock.  A thread that finds the    *)
(* room gone or in another phase returns without effect; it is kept        *)
(* asleep instead, as a thread that never wakes up behaves the same.       *)
TimerFire ==
    /\ UNCHANGED nextId
    /\ lock = "free"
    /\ \E k \in TimedPhases \X BOOLEAN :
         /\ timers[k] > 0
         /\ room_exists
         /\ TimerGuard(get_room, k[1])
         /\ Apply(transition_callback(k[1], k[2]), {}, graceOver,
                  [timers EXCEPT ![k] = @ - 1], 0)

(* A room in its lobby: created by player 1, who is the host, and joined   *)
(* by the players up to n.                                                 *)
Lobby(n) ==
    [create_room(room_data(1, 1)) EXCEPT
        !.players = [p \in 1..n |-> Player(p)],
        !.lobby_events = IF n = 1 THEN @ ELSE Ev("has joined the game.", n)]

Init ==
    /\ \E n \in 1..MaxPlayers : db = Lobby(n) /\ nextId = n + 1
    /\ lock = "free"
    /\ timers = NoTimers
    /\ pending = {}
    /\ graceOver = {}
    /\ last = L("join_room", NoId, "none", {})
    /\ resolutions = 0
    /\ requests = 0

Next ==
    \/ CreateRoom
    \/ JoinRoom
    \/ LeaveRoom
    \/ KickPlayer
    \/ StartGame
    \/ SubmitAnswer
    \/ RemoveAnswer
    \/ SubmitVote
    \/ ReadyToVote
    \/ ReadyCheck
    \/ TransitionToVoteSelection
    \/ LiarVote
    \/ VotingTimerExpired
    \/ UpdateSettings
    \/ RoundTransition
    \/ RoundWrite
    \/ NewGame
    \/ Disconnect
    \/ RejoinGame
    \/ GraceElapse
    \/ TimerFire

Spec == Init /\ [][Next]_vars

(* The server with its threads scheduled fairly: a timer thread that can   *)
(* wake up and take the lock does, and a handler thread that released the  *)
(* lock runs on.  Nothing makes a client send a request.                   *)
FairSpec ==
    /\ Spec
    /\ WF_vars(TimerFire)
    /\ WF_vars(ReadyCheck)
    /\ WF_vars(TransitionToVoteSelection)
    /\ WF_vars(RoundWrite)

(* ------------------- the draw of the impostors alone ------------------- *)
(* The impostor draw of handle_start_game and handle_round_transition for  *)
(* every game mode, number of active players and random number.            *)
DrawInputs ==
    [op : {"input"}, game_mode : GameModes, player_count : 0..MaxCount, rand : Rands]

Draw ==
    /\ last.op = "input"
    /\ LET active_players == 1..last.player_count
           impostor_count == impostor_count_of(last.game_mode, last.player_count, last.rand)
           drawn == [op |-> "draw", err |-> "none", impostors |-> {}, lost |-> FALSE,
                     game_mode |-> last.game_mode, player_count |-> last.player_count,
                     rand |-> last.rand, impostor_count |-> impostor_count]
       IN IF Samples(active_players, impostor_count) = {}
          THEN last' = [drawn EXCEPT !.err = "exception"]
          ELSE \E impostor_ids \in Samples(active_players, impostor_count) :
                 last' = [drawn EXCEPT !.impostors = impostor_ids]
    /\ UNCHANGED <<db, lock, timers, pending, graceOver, nextId, resolutions, requests>>

DrawInit ==
    /\ db = NoRoom
    /\ lock = "free"
    /\ timers = NoTimers
    /\ pending = {}
    /\ graceOver = {}
    /\ nextId = 1
    /\ last \in DrawInputs
    /\ resolutions = 0
    /\ requests = 0

DrawNext == Draw

DrawSpec == DrawInit /\ [][DrawNext]_vars

(* ------------------------------ claims -------------------------------- *)
(* C1: every change of the persisted phase of a room is one of             *)
(* waiting->question, question->voting, voting->vote_selection,            *)
(* vote_selection->question, vote_selection->results, or results->waiting  *)
(* by new-game; no other phase change ever occurs.                         *)
PhaseSequence ==
    [][(room_exists /\ room_exists' /\ db'.phase # db.phase) =>
          /\ <<db.phase, db'.phase>> \in
                {<<"waiting", "question">>, <<"question", "voting">>,
                 <<"voting", "vote_selection">>, <<"vote_selection", "question">>,
                 <<"vote_selection", "results">>, <<"results", "waiting">>}
          /\ db.phase = "results" => last'.op = "new_game"]_vars

(* C2: a transition request made while the room is not in the source phase *)
(* of the transition leaves the persisted room record unchanged:           *)
(* start-game outside waiting, voting-timer-expired and                    *)
(* transition_to_vote_selection outside voting, round-transition outside   *)
(* vote_selection.                                                         *)
WrongPhaseNoOp ==
    [][(/\ room_exists
        /\ \/ last'.op = "start_game" /\ db.phase # "waiting"
           \/ last'.op = "voting_timer_expired" /\ db.phase # "voting"
           \/ last'.op = "transition_to_vote_selection" /\ db.phase # "voting"
           \/ last'.op = "round_transition" /\ db.phase # "vote_selection")
       => db' = db]_vars

(* C3: a phase timer that fires after the room has left the occurrence of  *)
(* the phase it was armed for (that phase in that round of that game) does *)
(* not alter the room record, also when the room is by then in a phase of  *)
(* the same name in a later round or a new game.                           *)
StaleTimerNoOp == [][last'.op = "stale_timer" => db' = db]_vars

(* C4: a room in phase question, voting or vote_selection eventually       *)
(* leaves that phase by its timer when no further client event arrives,    *)
(* whichever way the phase was entered.                                    *)
TimedPhaseEnds ==
    \A ph \in TimedPhases :
        (room_exists /\ db.phase = ph) ~> ~(room_exists /\ db.phase = ph)

(* C5: for each occurrence of vote_selection the round resolution is       *)
(* applied at most once, whatever requests and timers run concurrently.    *)
ResolvedAtMostOnce == resolutions <= 1

(* C6: no write to the store replaces a row that another handler changed   *)
(* after the writer read it (no lost update).                              *)
NoLostUpdate == last.op = "round_write" => ~last.lost

(* C7: start-game changes the room only when the requester is the host and *)
(* at least 2 players are active, and it then starts from phase waiting;   *)
(* any other requester gets the error and leaves the record unchanged.     *)
StartGameGuards ==
    [][(room_exists /\ last'.op = "start_game") =>
          /\ Cardinality(get_active_players(db.players)) >= 2
          /\ \A p \in Ids \ {db.host_id} : handle_start_game_checks(db, p) = "not_host"]_vars

(* C8: at every entry into phase question (start-game and each next-round  *)
(* transition) the imposter ids are active players, every player of the    *)
(* roster, disconnected ones included, has a role and a question, the role *)
(* is imposter exactly for the imposter ids, the question is the imposter  *)
(* prompt exactly for the imposters, and the answers are empty.            *)
QuestionEntry ==
    [][(/\ room_exists'
        /\ db'.phase = "question"
        /\ last'.op \in {"start_game", "round_write"})
       => LET room == db'
              impostor_ids == last'.impostors
          IN /\ impostor_ids \subseteq get_active_players(room.players)
             /\ DOMAIN room.players \subseteq DOMAIN room.roles
             /\ DOMAIN room.players \subseteq DOMAIN room.questions
             /\ \A p \in DOMAIN room.players :
                   /\ room.roles[p] = "imposter" <=> p \in impostor_ids
                   /\ room.questions[p].q # NoQ
                   /\ room.questions[p].kind = "imposter" <=> room.roles[p] = "imposter"
             /\ room.answers = {}]_vars

QuestionEntryWitness ==
    /\ room_exists
    /\ db.phase = "question"
    /\ last.op = "start_game"
    /\ last.impostors # {}
    /\ \E p \in DOMAIN db.players : db.players[p].disconnected

(* C9: the number k of imposters assigned is 0 <= k <= the number of       *)
(* active players for every number of active players and every random      *)
(* number, the draw never fails in mayhem mode, and k = 1 in every other   *)
(* round with at least 1 active player.                                    *)
ImpostorCountBounds ==
    last.op = "draw" =>
        LET k == Cardinality(last.impostors) IN
        /\ last.err = "none" => 0 <= k /\ k <= last.player_count
        /\ last.game_mode = "mayhem" =>
              /\ last.err = "none"
              /\ last.impostor_count <= last.player_count
              /\ k = (IF last.impostor_count > 0 THEN last.impostor_count ELSE 0)
        /\ (last.game_mode # "mayhem" /\ last.player_count >= 1) =>
              last.err = "none" /\ k = 1

ImpostorCountWitness ==
    /\ last.op = "draw"
    /\ last.game_mode = "mayhem"
    /\ last.player_count = MaxCount
    /\ Cardinality(last.impostors) = last.player_count - 1

(* C10: in phase question a submit-answer keeps the phase while an active  *)
(* player has no recorded answer and moves the room to voting exactly when *)
(* every active player has one; on that move the ready set is empty and    *)
(* the voting start timestamp is set; submittedCount is the number of      *)
(* active players with a recorded answer.                                  *)
SubmitAnswerEffect ==
    [][last'.op = "submit_answer" =>
          LET room == db'
              active_player_ids == get_active_players(room.players)
              all_in == active_player_ids \subseteq room.answers
          IN /\ db.phase = "question"
             /\ room.phase = (IF all_in THEN "voting" ELSE "question")
             /\ all_in => room.ready_to_vote = {} /\ room.votingPhaseStartTimestamp
             /\ ~all_in =>
                   get_room_state(room).submittedCount
                     = Cardinality({p \in active_player_ids : p \in room.answers})]_vars

SubmitAnswerWitness ==
    /\ room_exists
    /\ last.op = "submit_answer"
    /\ db.phase = "voting"
    /\ \E p \in DOMAIN db.players : db.players[p].disconnected

(* C20: in every reachable state of a live room, host_id is the id of a    *)
(* player currently in the room's roster.                                  *)
HostInRoster == room_exists => db.host_id \in DOMAIN db.players

(* C16: a room record written with update_room is read back by get_room    *)
(* equal to the written one on the fields the handlers use; here for the   *)
(* record start-game writes: the row read back after the write holds the   *)
(* imposter id list the handler put into the record.                       *)
StoreRoundTrip ==
    [][(last'.op = "start_game" /\ last'.err = "none" /\ room_exists')
       => /\ "impostor_ids" \in DOMAIN get_room'
          /\ Get(get_room', "impostor_ids", {}) = last'.impostors]_vars

(* The room with the players of impostor_ids as its imposters and          *)
(* everything else as it is: the role and question assignment of           *)
(* start-game and of the next-round transition applied to the room.        *)
WithImposters(room, impostor_ids, first) ==
    [room EXCEPT !.imposter_id = first,
                 !.roles = AssignRoles(@, room.players, impostor_ids),
                 !.questions = AssignQuestions(@, room.players, impostor_ids,
                                               room.main_question)]

(* C15: in every phase other than results the projection sent as           *)
(* update-game-state does not depend on which players are imposters: two   *)
(* rooms that differ only in the imposter produce identical projections.   *)
ProjectionHidesImposters ==
    (room_exists /\ db.phase # "results") =>
        \A p, q \in get_active_players(db.players) :
            get_room_state(WithImposters(db, {p}, p))
                = get_room_state(WithImposters(db, {q}, q))

(* The row a run of handle_round_transition computed under the lock: the   *)
(* row it wrote there, or the one it carries to its update_room.           *)
RoundRow ==
    LET new == {c \in Writes(pending') : \A d \in Writes(pending) : d.tid # c.tid}
    IN IF new # {} THEN (CHOOSE c \in new : TRUE).room ELSE db'

(* C12: a round transition from vote_selection moves the room to results   *)
(* when current_round >= total_rounds or fewer than 2 active players       *)
(* remain, with a results payload of final round number, completion flag   *)
(* and total scores; otherwise to question with current_round increased by *)
(* exactly 1 and answers, votes, liar-votes and ready-set empty.           *)
RoundTransitionOutcome ==
    [][(room_exists /\ last'.op = "round_transition") =>
          LET room == get_room
              row == RoundRow
          IN IF \/ room.current_round >= room.total_rounds
                \/ Cardinality(get_active_players(room.players)) < 2
             THEN /\ row.phase = "results"
                  /\ {"finalRound", "gameComplete", "playerScores"}
                        \subseteq DOMAIN row.results
                  /\ row.results.finalRound = room.current_round
                  /\ row.results.gameComplete
             ELSE /\ row.phase = "question"
                  /\ row.current_round = room.current_round + 1
                  /\ row.answers = {}
                  /\ row.votes = {}
                  /\ row.liarVotes = EmptyDict
                  /\ row.ready_to_vote = {}]_vars

(* C13: total scores accumulate across rounds: the total the room keeps    *)
(* for a player after a round transition is the total it kept before the   *)
(* transition (0 before the first one) plus the player's score of the      *)
(* round.                                                                  *)
ScoresAccumulate ==
    [][(room_exists /\ last'.op = "round_transition") =>
          LET room == get_room
              zero == [p \in DOMAIN room.players |-> 0]
              before == Get(room, "player_scores", zero)
              round_scores == calculate_round_scores(room)
              kept == Get(RoundRow, "player_scores", zero)
          IN \A p \in DOMAIN room.players :
                Get(kept, p, 0) = Get(before, p, 0) + Get(round_scores, p, 0)]_vars

(* C14: in a normal-mode game started through start-game, when the lone    *)
(* imposter of the round is active and receives no accusing vote during    *)
(* vote_selection, the round score computed for the imposter at the round  *)
(* transition, from the persisted room record, is +2 whatever votes were   *)
(* cast against non-imposters.                                             *)
UnaccusedImposterScore ==
    [][(/\ room_exists
        /\ last'.op = "round_transition"
        /\ Get(db.settings, "gameMode", "none") = "normal"
        /\ db.imposter_id \in get_active_players(db.players)
        /\ Get(db.liarVotes, db.imposter_id, <<>>) = <<>>)
       => calculate_round_scores(get_room)[db.imposter_id] = 2]_vars

(* C18: a rejoin request is rejected with an error, and the persisted room *)
(* record is left unchanged, when the room does not exist, the player id   *)
(* is not in the roster, the player is not flagged disconnected, or more   *)
(* than the grace window has elapsed since the player's disconnect.        *)
RejoinRejected ==
    \A p \in Ids :
        (\/ ~room_exists
         \/ p \notin DOMAIN db.players
         \/ ~db.players[p].disconnected
         \/ p \in graceOver)
        => LET o == handle_rejoin_game(p, graceOver)
           IN o.last.err = "error" /\ ~o.wrote /\ o.db = db

RejoinRejectedWitness ==
    /\ room_exists
    /\ \E p \in DOMAIN db.players :
          /\ db.players[p].disconnected
          /\ p \in graceOver
          /\ handle_rejoin_game(p, graceOver).last.err = "error"
    /\ \E p \in DOMAIN db.players : ~db.players[p].disconnected
    /\ \E p \in Ids : p \notin DOMAIN db.players

ReadyGate ==
    [][(/\ room_exists /\ room_exists'
        /\ db.phase = "voting" /\ db'.phase = "vote_selection"
        /\ last'.op \notin {"timer", "voting_timer_expired"})
       => LET ready == IF last'.op = "disconnect"
                       THEN db'.ready_to_vote ELSE db.ready_to_vote
          IN get_active_players(db'.players) \subseteq ready]_vars

(* ------------------- a game of MaxPlayers + 1 players ------------------ *)
(* The question phase of a game that start-game has just started in a     *)
(* room of MaxPlayers + 1 players, one more than the clients that send     *)
(* requests: the last player stays connected and sends nothing.            *)
QuestionInit ==
    /\ \E settings \in SettingsInputs :
       \E q \in get_question_pair({}),
          n \in ImpostorCounts(settings.gameMode, MaxPlayers + 1) :
       \E impostor_ids \in Samples(1..(MaxPlayers + 1), n) :
       \E first \in IF impostor_ids = {} THEN {NoId} ELSE impostor_ids :
          /\ db = update_room(handle_start_game_room(Lobby(MaxPlayers + 1), settings, q,
                                                     impostor_ids, first))
          /\ last = L("start_game", 1, "none", impostor_ids)
    /\ nextId = MaxPlayers + 2
    /\ lock = "free"
    /\ timers = schedule_phase_transition(NoTimers, {"question"})
    /\ pending = {}
    /\ graceOver = {}
    /\ resolutions = 0
    /\ requests = 0

QuestionNext ==
    \/ SubmitAnswer
    \/ RemoveAnswer
    \/ LeaveRoom
    \/ KickPlayer
    \/ Disconnect

QuestionSpec == QuestionInit /\ [][QuestionNext]_vars

(* C17: when a player disconnects during phase question, the room is in    *)
(* voting once the disconnect has been handled if and only if at least 2   *)
(* active players remain and every remaining active player has a recorded  *)
(* answer; answers under ids of players no longer active do not count.     *)
DisconnectReevaluates ==
    [][(room_exists /\ db.phase = "question" /\ last'.op = "disconnect")
       => ((room_exists' /\ db'.phase = "voting")
            <=> /\ room_exists'
                /\ Cardinality(get_active_players(db'.players)) >= 2
                /\ get_active_players(db'.players) \subseteq db'.answers)]_vars

(* C21: in every reachable state of a room whose phase is not results,     *)
(* current_round <= total_rounds.                                          *)
RoundWithinTotal ==
    (room_exists /\ db.phase # "results") => db.current_round <= db.total_rounds

RoundWithinTotalWitness ==
    /\ room_exists
    /\ db.phase = "question"
    /\ last.op = "round_write"
    /\ db.current_round = db.total_rounds
    /\ db.current_round > 1

(* C22: a new-game request by the host with at least 2 active players      *)
(* returns the room to waiting with roles, questions, answers, votes,      *)
(* liar-votes, ready-set, imposter ids, scores, used question ids and      *)
(* round counter reset, and leaves the roster (disconnected players        *)
(* included) and host_id unchanged; a new-game request by a non-host or    *)
(* with fewer than 2 active players leaves the record unchanged.           *)
NewGameEffect ==
    /\ [](room_exists =>
            \A p \in Ids :
                (p # db.host_id \/ Cardinality(get_active_players(db.players)) < 2)
                => LET o == handle_new_game(p)
                   IN ~o.wrote /\ o.db = db /\ o.last.err = "error")
    /\ [][(room_exists /\ last'.op = "new_game") =>
            /\ Cardinality(get_active_players(db.players)) >= 2
            /\ room_exists'
            /\ db'.phase = "waiting"
            /\ db'.roles = EmptyDict
            /\ db'.questions = EmptyDict
            /\ db'.answers = {}
            /\ db'.votes = {}
            /\ db'.liarVotes = EmptyDict
            /\ db'.ready_to_vote = {}
            /\ db'.imposter_id = NoId
            /\ Get(db', "impostor_ids", {}) = {}
            /\ Get(db', "player_scores", EmptyDict) = EmptyDict
            /\ db'.used_question_indexes = {}
            /\ db'.current_round = 1
            /\ db'.players = db.players
            /\ db'.host_id = db.host_id]_vars

NewGameEffectWitness ==
    /\ room_exists
    /\ last.op = "new_game"
    /\ db.phase = "waiting"
    /\ \E p \in DOMAIN db.players : db.players[p].disconnected
    /\ \E p \in Ids : p # db.host_id

(* C23: a join-room request is rejected with an error, leaving the record  *)
(* unchanged, when the room does not exist, its phase is not waiting, its  *)
(* active-player count is at the configured maximum (default               *)
(* DefaultPlayerCount), or the requested name is the name of a player in   *)
(* the roster; player names stay unique within a room.                     *)
JoinRejected ==
    /\ \A name \in Names :
          (\/ ~room_exists
           \/ db.phase # "waiting"
           \/ Cardinality(get_active_players(db.players))
                 >= Get(db.settings, "playerCount", DefaultPlayerCount)
           \/ \E p \in DOMAIN db.players : db.players[p].name = name)
          => LET o == handle_join_room(nextId, name)
             IN o.last.err = "error" /\ ~o.wrote /\ o.db = db
    /\ room_exists =>
          \A p, q \in DOMAIN db.players :
              db.players[p].name = db.players[q].name => p = q

(* A lobby that is full by its settings, with a player who disconnected    *)
(* during a game still in the roster under their name.                     *)
JoinRejectedWitness ==
    /\ room_exists
    /\ db.phase = "waiting"
    /\ Cardinality(get_active_players(db.players))
          >= Get(db.settings, "playerCount", DefaultPlayerCount)
    /\ \E p \in DOMAIN db.players : db.players[p].disconnected
    /\ \A name \in Names : handle_join_room(nextId, name).last.err = "error"

(* C24: every room present in the store has at least one active            *)
(* (non-disconnected) player.                                              *)
RoomHasActive == room_exists => get_active_players(db.players) # {}

(* C25: when a disconnect in a started game (phase not waiting) leaves     *)
(* exactly one active player, that player is sent solo-player-kick and the *)
(* room is deleted; when it leaves none the room is deleted; so after a    *)
(* mid-game disconnect the room no longer exists or has at least 2 active  *)
(* players.                                                                *)
SoloRoomDeleted ==
    [][(room_exists /\ db.phase # "waiting" /\ last'.op = "disconnect") =>
          LET remaining == Cardinality(get_active_players(db.players)) - 1
          IN /\ remaining <= 1 <=> ~room_exists'
             /\ ~room_exists' =>
                   /\ last'.solo_player_kick \subseteq get_active_players(db.players)
                   /\ Cardinality(last'.solo_player_kick) = remaining
             /\ room_exists' => Cardinality(get_active_players(db'.players)) >= 2]_vars

SoloRoomDeletedWitness ==
    /\ ~room_exists
    /\ last.op = "disconnect"
    /\ "solo_player_kick" \in DOMAIN last
    /\ last.solo_player_kick # {}

(* C26: a disconnect while the room is in waiting removes the player from  *)
(* the roster outright; the room is deleted if the roster is then empty,   *)
(* and otherwise host_id is reassigned to the first remaining player when  *)
(* the departed player was the host and is unchanged when they were not.   *)
LobbyDisconnect ==
    [][(room_exists /\ db.phase = "waiting" /\ last'.op = "disconnect") =>
          LET gone == IF room_exists'
                      THEN DOMAIN db.players \ DOMAIN db'.players
                      ELSE DOMAIN db.players
          IN /\ Cardinality(gone) = 1
             /\ room_exists' <=> DOMAIN db.players # gone
             /\ room_exists' =>
                   /\ DOMAIN db'.players = DOMAIN db.players \ gone
                   /\ \A q \in DOMAIN db'.players : db'.players[q] = db.players[q]
                   /\ db'.phase = "waiting"
                   /\ db'.host_id = IF db.host_id \in gone
                                    THEN First(DOMAIN db'.players)
                                    ELSE db.host_id]_vars

LobbyDisconnectWitness ==
    /\ room_exists
    /\ db.phase = "waiting"
    /\ last.op = "disconnect"
    /\ 1 \notin DOMAIN db.players
    /\ db.host_id = First(DOMAIN db.players)
    /\ Cardinality(DOMAIN db.players) = 2

(* C27: on every entry into a collecting phase, by every path, the         *)
(* collected data starts empty: answers on entering question, the          *)
(* ready-set on entering voting, the ready-set and the liar-vote tally on  *)
(* entering vote_selection.                                                *)
CollectedStartsEmpty ==
    [][(room_exists /\ room_exists' /\ db'.phase # db.phase) =>
          /\ db'.phase = "question" => db'.answers = {}
          /\ db'.phase = "voting" => db'.ready_to_vote = {}
          /\ db'.phase = "vote_selection" =>
                db'.ready_to_vote = {} /\ db'.liarVotes = EmptyDict]_vars

(* ------------------- the question draws of a game ---------------------- *)
(* The draws of one game from a pool of PoolSize questions: each round     *)
(* (start-game, then every next-round transition) calls get_question_pair  *)
(* with the room's used_question_indexes and appends the index drawn.      *)
(* last.used is the room's used_question_indexes, a list.                  *)
Pool == 1..PoolSize

QuestionDraw ==
    /\ last.op \in {"new_game", "question_draw"}
    /\ Len(last.used) < MaxDraws
    /\ \E selected_index \in available_indexes(Pool, Range(last.used)) :
          last' = [op |-> "question_draw", err |-> "none", impostors |-> {},
                   lost |-> FALSE, q |-> selected_index,
                   used |-> Append(last.used, selected_index)]
    /\ UNCHANGED <<db, lock, timers, pending, graceOver, nextId, resolutions, requests>>

PoolInit ==
    /\ db = NoRoom
    /\ lock = "free"
    /\ timers = NoTimers
    /\ pending = {}
    /\ graceOver = {}
    /\ nextId = 1
    /\ last = [op |-> "new_game", err |-> "none", impostors |-> {}, lost |-> FALSE,
               q |-> NoQ, used |-> <<>>]
    /\ resolutions = 0
    /\ requests = 0

PoolNext == QuestionDraw

PoolSpec == PoolInit /\ [][PoolNext]_vars

(* C28: the question id drawn for a round is not in the used-id set at     *)
(* draw time unless every id of the pool is used, the drawn id is then     *)
(* added to the used-id set, and after exhaustion a question is not drawn  *)
(* again until every question has been drawn once more: the draws of each  *)
(* pass through the pool are distinct, and the same question is not drawn  *)
(* in two consecutive rounds when the pool has more than one question.     *)
QuestionNotRepeated ==
    [][last'.op = "question_draw" =>
          LET used == last.used
              q == last'.q
              pass == {i \in 1..Len(used) : (i - 1) \div PoolSize = Len(used) \div PoolSize}
          IN /\ Range(used) # Pool => q \notin Range(used)
             /\ last'.used = Append(used, q)
             /\ \A i \in pass : used[i] # q
             /\ (PoolSize > 1 /\ used # <<>>) => q # used[Len(used)]]_vars

(* C29: every acquisition of the game lock is followed by its release: no  *)
(* thread, timer callback or round transition, blocks on the lock while    *)
(* holding it.                                                             *)
LockReleased == lock # "deadlocked"

(* --------------------- scoring of a round ------------------------------ *)
(* The rooms calculate_round_scores is given at the end of a round of a    *)
(* game of MaxPlayers players: the room as handle_start_game built it,     *)
(* imposter ids included, after the last player was or was not removed,    *)
(* some players disconnected, and the active players cast their liar       *)
(* votes: at most one each in normal mode, any set of targets in mayhem.   *)
LiarVotesOf(vote) ==
    [t \in UNION {vote[v] : v \in DOMAIN vote} |->
        SelectSeq([i \in 1..MaxPlayers |-> i],
                  LAMBDA v : v \in DOMAIN vote /\ t \in vote[v])]

VotesIn(game_mode, voters) ==
    {f \in [voters -> SUBSET Ids] :
        game_mode = "mayhem" \/ \A v \in voters : Cardinality(f[v]) <= 1}

ScoreInput(game_mode, roster, gone, impostor_ids, vote) ==
    [op |-> "score_input", err |-> "none", impostors |-> impostor_ids, lost |-> FALSE,
     room |-> [handle_start_game_room(Lobby(MaxPlayers),
                                      [gameMode |-> game_mode, totalRounds |-> MaxRounds],
                                      1, impostor_ids,
                                      IF impostor_ids = {} THEN NoId ELSE Min(impostor_ids))
               EXCEPT !.phase = "vote_selection",
                      !.players = [p \in roster |->
                                      [Player(p) EXCEPT !.disconnected = p \in gone]],
                      !.liarVotes = LiarVotesOf(vote)]]

Score ==
    /\ last.op = "score_input"
    /\ last' = [last EXCEPT !.op = "score"] @@ [scores |-> calculate_round_scores(last.room)]
    /\ UNCHANGED <<db, lock, timers, pending, graceOver, nextId, resolutions, requests>>

ScoreInit ==
    /\ db = NoRoom
    /\ lock = "free"
    /\ timers = NoTimers
    /\ pending = {}
    /\ graceOver = {}
    /\ nextId = 1
    /\ \E game_mode \in GameModes,
          roster \in {Ids, Ids \ {MaxPlayers}},
          gone \in SUBSET (Ids \ {MaxPlayers}),
          impostor_ids \in SUBSET Ids :
          \E vote \in VotesIn(game_mode, roster \ gone) :
             last = ScoreInput(game_mode, roster, gone, impostor_ids, vote)
    /\ resolutions = 0
    /\ requests = 0

ScoreNext == Score

ScoreSpec == ScoreInit /\ [][ScoreNext]_vars

(* C30: in a round with at least one imposter, calculate_round_scores      *)
(* gives each imposter who is still an active player +2 when no other      *)
(* player accused them, +1 when the number of such accusers is positive    *)
(* and at most 50% of the active-player count, and 0 otherwise; an         *)
(* imposter who is disconnected or removed at scoring time receives no     *)
(* imposter bonus.                                                         *)
ImposterBonus ==
    last.op = "score" =>
        LET room == last.room
            active == get_active_players(room.players)
            accusers(i) == {v \in Range(Get(room.liarVotes, i, <<>>)) : v # i}
        IN \A i \in room.impostor_ids :
              IF i \in active
              THEN last.scores[i] =
                      IF accusers(i) = {} THEN 2
                      ELSE IF 2 * Cardinality(accusers(i)) <= Cardinality(active) THEN 1
                      ELSE 0
              ELSE Get(last.scores, i, 0) = 0

(* C31: in a round with at least one imposter, calculate_round_scores      *)
(* gives every active non-imposter, in mayhem mode, the number of distinct *)
(* imposters they accused minus the number of distinct non-imposters other *)
(* than themselves they accused, and in normal mode exactly +1 if they     *)
(* accused at least one imposter and 0 otherwise; imposters and inactive   *)
(* players receive no voter points (an imposter's score does not depend on *)
(* the votes the imposter cast, an inactive non-imposter scores 0).        *)
VoterPoints ==
    (last.op = "score" /\ last.room.impostor_ids # {}) =>
        LET room == last.room
            imps == room.impostor_ids
            lv == room.liarVotes
            active == get_active_players(room.players)
            casts(p) == {t \in DOMAIN lv : \E k \in 1..Len(lv[t]) : lv[t][k] = p}
            correct(p) == Cardinality(casts(p) \cap imps)
            wrong(p) == Cardinality((casts(p) \ imps) \ {p})
            silent(p) == [room EXCEPT !.liarVotes =
                             [t \in DOMAIN lv |-> SelectSeq(lv[t], LAMBDA v : v # p)]]
        IN \A p \in DOMAIN room.players :
              IF p \in imps
              THEN last.scores[p] = calculate_round_scores(silent(p))[p]
              ELSE IF p \in active
              THEN last.scores[p] =
                      IF room.settings.gameMode = "mayhem" THEN correct(p) - wrong(p)
                      ELSE IF correct(p) >= 1 THEN 1 ELSE 0
              ELSE last.scores[p] = 0

VoterPointsWitness ==
    /\ last.op = "score"
    /\ last.room.settings.gameMode = "mayhem"
    /\ \E p \in get_active_players(last.room.players) \ last.room.impostor_ids :
          /\ \E i \in last.room.impostor_ids :
                i \in DOMAIN last.room.liarVotes /\ p \in Range(last.room.liarVotes[i])
          /\ \E t \in DOMAIN last.room.liarVotes \ (last.room.impostor_ids \cup {p}) :
                p \in Range(last.room.liarVotes[t])
          /\ last.scores[p] = 0
    /\ \E q \in get_active_players(last.room.players) \ last.room.impostor_ids :
          last.scores[q] = 0 - 1

(* C32: in a round with zero imposters, calculate_round_scores gives +2 to *)
(* every active player who received no accusing vote, and subtracts from   *)
(* every active player who cast votes 1 point per accusation they cast     *)
(* against a player other than themselves.  Stated for the rounds in which *)
(* nobody voted for themselves.                                            *)
ZeroImposterScores ==
    (/\ last.op = "score"
     /\ last.room.impostor_ids = {}
     /\ \A t \in DOMAIN last.room.liarVotes : t \notin Range(last.room.liarVotes[t])) =>
        LET room == last.room
            lv == room.liarVotes
            received(p) == {v \in Range(Get(lv, p, <<>>)) : v # p}
            cast(p) == {t \in DOMAIN lv \ {p} : p \in Range(lv[t])}
        IN \A p \in get_active_players(room.players) :
              last.scores[p] =
                  (IF received(p) = {} THEN 2 ELSE 0) - Cardinality(cast(p))

(* C33: a mid-game disconnect keeps the player in the roster flagged       *)
(* disconnected, and removes the player's recorded answer only when the    *)
(* phase is question: in voting and vote_selection the answers map is the  *)
(* same before and after the disconnect.  Stated for the disconnects after *)
(* which the room is still stored.                                         *)
DisconnectKeepsAnswers ==
    [][(room_exists /\ db.phase # "waiting" /\ last'.op = "disconnect" /\ room_exists') =>
          \E p \in DOMAIN db.players :
             /\ ~db.players[p].disconnected
             /\ p \in DOMAIN db'.players
             /\ db'.players[p].disconnected
             /\ db'.answers = IF db.phase = "question"
                              THEN db.answers \ {p}
                              ELSE db.answers]_vars

DisconnectKeepsAnswersWitness ==
    /\ room_exists
    /\ last.op = "disconnect"
    /\ db.phase \in {"voting", "vote_selection"}
    /\ \E p \in DOMAIN db.players :
          /\ db.players[p].disconnected
          /\ db.players[p].had_submitted
          /\ p \in db.answers

(* ------------------- the vote_selection phase -------------------------- *)
(* The vote_selection phase of the first round of a game of MaxPlayers     *)
(* players, as transition_to_vote_selection leaves it once every player    *)
(* answered and was ready: the tally is empty, the phase timer is armed.   *)
VoteInit ==
    /\ \E settings \in SettingsInputs :
       \E q \in get_question_pair({}),
          n \in ImpostorCounts(settings.gameMode, MaxPlayers) :
       \E impostor_ids \in Samples(1..MaxPlayers, n) :
       \E first \in IF impostor_ids = {} THEN {NoId} ELSE impostor_ids :
          /\ db = [update_room(handle_start_game_room(Lobby(MaxPlayers), settings, q,
                                                      impostor_ids, first))
                   EXCEPT !.answers = 1..MaxPlayers,
                          !.phase = "vote_selection",
                          !.votingPhaseStartTimestamp = TRUE,
                          !.voteSelectionStartTimestamp = TRUE,
                          !.lobby_events = Ev("Time to vote for the imposter!", NoId),
                          !.liarVotes = EmptyDict,
                          !.ready_to_vote = {}]
          /\ last = L("transition_to_vote_selection", NoId, "none", {})
    /\ nextId = MaxPlayers + 1
    /\ lock = "free"
    /\ timers = schedule_phase_transition(NoTimers, {"vote_selection"})
    /\ pending = {}
    /\ graceOver = {}
    /\ resolutions = 0
    /\ requests = 0

(* liar-vote requests, up to MaxCasts votes in the tally. *)
LiarVoteCast ==
    /\ room_exists => LiarVoteCount(get_room) < MaxCasts
    /\ \E voter \in Ids, target \in Ids : Locked(handle_liar_vote(voter, target))
    /\ UNCHANGED nextId

VoteNext ==
    \/ LiarVoteCast
    \/ Disconnect
    \/ NewGame

VoteSpec == VoteInit /\ [][VoteNext]_vars

(* C34: after a mid-game disconnect of player p has been handled, in any   *)
(* phase and either game mode (mayhem included, where p may have voted     *)
(* several times for the same target), p is not in the ready-set, p does   *)
(* not appear in the accuser list of any liar-vote target, p is not a      *)
(* liar-vote target key, and p has no entry in the legacy votes map.       *)
DisconnectClearsVotes ==
    [][(room_exists /\ db.phase # "waiting" /\ last'.op = "disconnect" /\ room_exists') =>
          \A p \in DOMAIN db.players :
             (~db.players[p].disconnected /\ p \in DOMAIN db'.players
                                          /\ db'.players[p].disconnected) =>
                /\ p \notin db'.ready_to_vote
                /\ p \notin db'.votes
                /\ p \notin DOMAIN db'.liarVotes
                /\ \A t \in DOMAIN db'.liarVotes : p \notin Range(db'.liarVotes[t])]_vars

(* ----------------------- emit_state_update ----------------------------- *)
(* emit_state_update(room_id) with no room given, as the handlers call it  *)
(* after releasing the lock.  It reads the store twice: get_room_state     *)
(* takes the lock, reads the row and builds update_game_state; then        *)
(* db_manager.get_room reads the row again, without the lock, to send each *)
(* player's personal_game_info when that row's phase is question.          *)
emit_room_state ==
    LET room == get_room IN
    IF ~room_exists THEN Ignored("emit_state_update", NoId, "none")
    ELSE [Ignored("emit_state_update", NoId, "none") EXCEPT
            !.spawn = {[kind |-> "emit_personal",
                        room |-> [room_state |-> get_room_state(room), row |-> room]]}]

emit_personal_info(c) ==
    LET room == get_room IN
    [Ignored("emit_state_update", NoId, "none") EXCEPT
        !.last = [update_game_state |-> c.room.room_state,
                  first_row |-> c.room.row,
                  second_row |-> room,
                  personal_game_info |->
                     IF room_exists /\ room.phase = "question"
                     THEN {[player |-> p, role |-> Get(room.roles, p, "none"),
                            question |-> Get(room.questions, p, "none")] :
                              p \in DOMAIN room.players}
                     ELSE {}] @@ @]

EmitState ==
    /\ lock = "free"
    /\ \E c \in pending : c.kind = "emit" /\ Apply(emit_room_state, {c}, graceOver, timers, 0)
    /\ UNCHANGED nextId

EmitPersonal ==
    /\ \E c \in pending :
         c.kind = "emit_personal" /\ Apply(emit_personal_info(c), {c}, graceOver, timers, 0)
    /\ UNCHANGED nextId

(* The lobby of MaxPlayers players after the last join-room request was    *)
(* served: the emit_state_update that ends handle_join_room has yet to run.*)
EmitInit ==
    /\ db = Lobby(MaxPlayers)
    /\ nextId = MaxPlayers + 1
    /\ lock = "free"
    /\ timers = NoTimers
    /\ pending = Spawned({[kind |-> "emit"]}, {})
    /\ graceOver = {}
    /\ last = L("join_room", NoId, "none", {})
    /\ resolutions = 0
    /\ requests = 0

EmitNext ==
    \/ EmitState
    \/ EmitPersonal
    \/ StartGame
    \/ SubmitAnswer

EmitSpec == EmitInit /\ [][EmitNext]_vars

(* C35: every emit_state_update sends payloads derived from one room       *)
(* snapshot: the update-game-state projection and the personal-game-info   *)
(* messages of the same call are computed from the same persisted state    *)
(* (same phase, same roles and questions), even when other handlers or     *)
(* timers commit changes between the steps performed outside the lock.     *)
EmitOneSnapshot ==
    (last.op = "emit_state_update" /\ "update_game_state" \in DOMAIN last) =>
        /\ last.personal_game_info # {} => last.update_game_state.phase = "question"
        /\ last.second_row.phase = last.first_row.phase
        /\ last.second_row.roles = last.first_row.roles
        /\ last.second_row.questions = last.first_row.questions

(* C36: a kick-player request by the host naming any player present in the *)
(* roster, active or disconnected within the grace window, removes that    *)
(* player from the roster and does not raise out of the handler; a kick by *)
(* a non-host, or naming a player not in the roster, leaves the record     *)
(* unchanged and reports an error.                                         *)
KickOutcome ==
    room_exists =>
        \A by \in Ids, target \in Ids :
            LET o == handle_kick_player(by, target) IN
            IF by = db.host_id /\ target \in DOMAIN db.players
            THEN /\ o.last.err = "none"
                 /\ o.wrote
                 /\ DOMAIN o.db.players = DOMAIN db.players \ {target}
            ELSE /\ o.last.err = "error"
                 /\ ~o.wrote
                 /\ o.db = db

(* C37: in a vote_selection phase played in normal mode, after any         *)
(* sequence of liar-vote requests every voter id appears in the accuser    *)
(* list of at most one target and at most once (a new vote replaces the    *)
(* voter's previous one); liar-vote requests outside vote_selection leave  *)
(* the tally unchanged.                                                    *)
Casts(liar_votes, voter_id) ==
    {<<t, k>> \in (DOMAIN liar_votes) \X (1..MaxCount) :
        k <= Len(liar_votes[t]) /\ liar_votes[t][k] = voter_id}

QuestionNeverComplete ==
    (/\ room_exists
     /\ db.phase = "question"
     /\ last.op \in {"submit_answer", "remove_answer", "leave_room", "kick_player",
                     "disconnect", "rejoin_game"}
     /\ Cardinality(get_active_players(db.players)) >= 2) =>
        \E p \in get_active_players(db.players) : p \notin db.answers

(* C39: whenever a rejoin reply reports hadSubmitted true while the room   *)
(* is in phase question, the server still holds a recorded answer for that *)
(* player, so the player counts as submitted in the all-active-players-    *)
(* submitted check; likewise wasReady true in voting implies the player is *)
(* in the ready-set.                                                       *)
RejoinFlagsBacked ==
    (room_exists /\ last.op = "rejoin_game" /\ "reply" \in DOMAIN last) =>
        /\ (last.reply.hadSubmitted /\ db.phase = "question")
              => last.reply.playerId \in db.answers
        /\ (last.reply.wasReady /\ db.phase = "voting")
              => last.reply.playerId \in db.ready_to_vote

(* C40: the imposter id set that calculate_round_scores reads at round     *)
(* transition equals the imposter id set assigned when that round's        *)
(* question phase began (the players whose stored role is imposter),       *)
(* through every intervening persist and reload of the room; in particular *)
(* the zero-imposter scoring branch is never taken in a normal-mode round. *)
(* Stated for the rounds in which at least one imposter was assigned.      *)
AssignedImposters(room) == {p \in DOMAIN room.roles : room.roles[p] = "imposter"}

ScoredImposters ==
    [][(/\ room_exists
        /\ RoundTransitionGuard(db)
        /\ AssignedImposters(db) # {}
        /\ last'.op = "round_transition") =>
          /\ Get(get_room, "impostor_ids", {}) = AssignedImposters(db)
          /\ Get(db.settings, "gameMode", "normal") = "normal"
                => Get(get_room, "impostor_ids", {}) # {}]_vars

====
